---- MODULE Spec2Model ----
(***************************************************************************)
(* Booking / room state machine and availability engine of the hotel       *)
(* backend (backend/src/services/booking_service.rs, room_service.rs,      *)
(* api/rooms.rs, models/booking.rs, models/room.rs, errors.rs).            *)
(*                                                                         *)
(* The shared store is PostgreSQL at READ COMMITTED: every statement of a  *)
(* handler sees the rows committed so far, and the writes of a             *)
(* conn.transaction block become visible together at its commit.  A        *)
(* handler is therefore a sequence of steps, one per point at which other  *)
(* requests can interleave; the statements of a transaction from its       *)
(* status-guarded UPDATE to COMMIT are one step, because the row lock the  *)
(* UPDATE takes makes every concurrent writer of that row wait for the     *)
(* commit and re-evaluate its WHERE clause afterwards.                     *)
(***************************************************************************)
EXTENDS Integers, Sequences, FiniteSets, TLC

\* ------------------------------------------------------------------ bounds
NumRooms == 1
MaxBookings == 2
MaxDay == 2
MaxToday == 2
NumProcs == 2
NumUsers == 1
NumRefs == 2
RoomPrice == 2

Rooms == 1..NumRooms
BookingIds == 1..MaxBookings
Dates == 0..MaxDay
Procs == 1..NumProcs
Users == 1..NumUsers
Refs == 1..NumRefs

\* Option<T>: None and Some(x) for created_by_user_id, price and exclude_booking_id
None == <<>>
Some(x) == <<x>>

\* None where a status is optional
NoStatus == "None"

\* ------------------------------------------------------------------ enums
BookingStatus == {"Upcoming", "CheckedIn", "CheckedOut", "Cancelled", "NoShow", "Overstay"}
RoomStatus == {"Available", "Occupied", "Maintenance", "Dirty", "Cleaning"}
UserRole == {"Admin", "Receptionist", "Guest", "Cleaner"}
ErrorKind == {"ValidationError", "Unauthorized", "Forbidden", "NotFound", "RoomUnavailable",
              "DuplicateRoom", "InvalidStatusTransition", "Conflict", "DatabaseError",
              "InternalError"}

\* ------------------------------------------------------------------ models/booking.rs
\* can_transition_to with the same-status arm moved above the two terminal arms
BookingCanTransitionToSameFirst(s, new_status) ==
    s = new_status \/
    <<s, new_status>> \in {<<"Upcoming", "CheckedIn">>, <<"Upcoming", "Cancelled">>,
                           <<"Upcoming", "NoShow">>, <<"CheckedIn", "CheckedOut">>,
                           <<"CheckedIn", "Overstay">>, <<"NoShow", "CheckedIn">>,
                           <<"NoShow", "Cancelled">>, <<"Overstay", "CheckedOut">>}

\* can_transition_to without the late check-in arm (NoShow, CheckedIn)
BookingCanTransitionToNoLateCheckIn(s, new_status) ==
    IF s \in {"CheckedOut", "Cancelled"} THEN FALSE
    ELSE s = new_status \/
         <<s, new_status>> \in {<<"Upcoming", "CheckedIn">>, <<"Upcoming", "Cancelled">>,
                                <<"Upcoming", "NoShow">>, <<"CheckedIn", "CheckedOut">>,
                                <<"CheckedIn", "Overstay">>, <<"NoShow", "Cancelled">>,
                                <<"Overstay", "CheckedOut">>}

\* BookingStatus::can_transition_to: the match arms in source order; the two
\* terminal arms come before the same-status arm.
BookingCanTransitionTo(s, new_status) ==
    CASE s = "Upcoming" /\ new_status = "CheckedIn" -> TRUE
      [] s = "Upcoming" /\ new_status = "Cancelled" -> TRUE
      [] s = "Upcoming" /\ new_status = "NoShow" -> TRUE
      [] s = "CheckedIn" /\ new_status = "CheckedOut" -> TRUE
      [] s = "CheckedIn" /\ new_status = "Overstay" -> TRUE
      [] s = "NoShow" /\ new_status = "CheckedIn" -> TRUE
      [] s = "NoShow" /\ new_status = "Cancelled" -> TRUE
      [] s = "Overstay" /\ new_status = "CheckedOut" -> TRUE
      [] OTHER -> IF s = "CheckedOut" THEN FALSE
                  ELSE IF s = "Cancelled" THEN FALSE
                  ELSE IF s = new_status THEN TRUE
                  ELSE FALSE

is_terminal(s) == s \in {"CheckedOut", "Cancelled"}

is_active(s) == s \in {"CheckedIn", "Overstay"}

blocks_availability(s) == s \in {"Upcoming", "CheckedIn", "Overstay"}

\* ------------------------------------------------------------------ models/room.rs
\* can_transition_to that lets an Occupied room go to Maintenance
RoomCanTransitionToFromOccupied(s, new_status) ==
    s = new_status \/
    <<s, new_status>> \in {<<"Available", "Occupied">>, <<"Available", "Maintenance">>,
                           <<"Available", "Dirty">>, <<"Occupied", "Available">>,
                           <<"Occupied", "Dirty">>, <<"Occupied", "Maintenance">>,
                           <<"Maintenance", "Available">>, <<"Dirty", "Cleaning">>,
                           <<"Dirty", "Available">>, <<"Cleaning", "Available">>,
                           <<"Cleaning", "Dirty">>}

\* RoomStatus::can_transition_to
RoomCanTransitionTo(s, new_status) ==
    CASE s = "Available" /\ new_status = "Occupied" -> TRUE
      [] s = "Available" /\ new_status = "Maintenance" -> TRUE
      [] s = "Available" /\ new_status = "Dirty" -> TRUE
      [] s = "Occupied" /\ new_status = "Available" -> TRUE
      [] s = "Occupied" /\ new_status = "Dirty" -> TRUE
      [] s = "Maintenance" /\ new_status = "Available" -> TRUE
      [] s = "Dirty" /\ new_status = "Cleaning" -> TRUE
      [] s = "Dirty" /\ new_status = "Available" -> TRUE
      [] s = "Cleaning" /\ new_status = "Available" -> TRUE
      [] s = "Cleaning" /\ new_status = "Dirty" -> TRUE
      [] OTHER -> IF s = new_status THEN TRUE ELSE FALSE

\* is_allowed_for_role without the Maintenance arm
is_allowed_for_role_occupied_only(status, role) ==
    CASE status = "Occupied" /\ role = "Cleaner" -> FALSE
      [] OTHER -> TRUE

is_allowed_for_role(status, role) ==
    CASE status = "Occupied" /\ role = "Cleaner" -> FALSE
      [] status = "Maintenance" /\ role = "Cleaner" -> FALSE
      [] OTHER -> TRUE

\* ------------------------------------------------------------------ errors.rs
\* The Display text of an AppError up to its payload (#[error("...: {0}")]).
ErrorDisplayPrefix(kind) ==
    CASE kind = "ValidationError" -> "Validation error: "
      [] kind = "Unauthorized" -> "Unauthorized: "
      [] kind = "Forbidden" -> "Forbidden: "
      [] kind = "NotFound" -> "Not found: "
      [] kind = "RoomUnavailable" -> "Room unavailable: "
      [] kind = "DuplicateRoom" -> "Duplicate room: "
      [] kind = "InvalidStatusTransition" -> "Invalid status transition: "
      [] kind = "Conflict" -> "Conflict: "
      [] kind = "DatabaseError" -> "Database error: "
      [] kind = "InternalError" -> "Internal server error: "

\* diesel::result::Error values a transaction closure returns
DieselNotFound == [tag |-> "NotFound", msg |-> ""]

\* app_error_to_diesel: the AppError's Display text wrapped in a DatabaseError
app_error_to_diesel(kind) == [tag |-> "DatabaseError", msg |-> ErrorDisplayPrefix(kind)]

\* From<diesel::result::Error> that does not recognise "Validation error: "
AppErrorFromDieselNoValidation(err) ==
    IF err.tag = "NotFound" THEN "NotFound"
    ELSE IF err.tag = "DatabaseError" THEN
        IF err.msg = "Invalid status-+ transition: " THEN "InvalidStatusTransition"
        ELSE IF err.msg = "Room unavailable: " THEN "RoomUnavailable"
        ELSE IF err.msg = "Conflict: " THEN "Conflict"
        ELSE "DatabaseError"
    ELSE "DatabaseError"

\* impl From<diesel::result::Error> for AppError: the prefixes it strips
AppErrorFromDiesel(err) ==
    IF err.tag = "NotFound" THEN "NotFound"
    ELSE IF err.tag = "DatabaseError" THEN
        IF err.msg = "Validation error: " THEN "ValidationError"
        ELSE IF err.msg = "Invalid status-+ transition: " THEN "InvalidStatusTransition"
        ELSE IF err.msg = "Room unavailable: " THEN "RoomUnavailable"
        ELSE IF err.msg = "Conflict: " THEN "Conflict"
        ELSE "DatabaseError"
    ELSE "DatabaseError"

\* ------------------------------------------------------------------ state
\* rooms[r]      the status column of room r (its nightly price never changes
\*               after creation: update_room writes price: None)
\* bookings      the bookings table; a booking's id is its index
\* today         Utc::now().date_naive()
\* pc, loc       each request task's position in its handler and the values it
\*               has read so far
\* res           the response the step just taken returned to its caller (NoRes
\*               when the step finished no request): the operation, "ok" or the
\*               AppError kind, the id of the row it named or created, the
\*               reconciler's counts, and for a direct call of a function its
\*               arguments (args) and its result (kind)
VARIABLES rooms, bookings, today, pc, loc, res

vars == <<rooms, bookings, today, pc, loc, res>>

\* Room.price of room r
RoomPriceOf(r) == RoomPrice

\* guest_name as the handlers see it: its byte length and the length of its trim()
ValidName == [len |-> 1, trimmed |-> 1]
BlankName == [len |-> 1, trimmed |-> 0]
EmptyName == [len |-> 0, trimmed |-> 0]
MaxNameLen == 100
LongName == [len |-> MaxNameLen + 1, trimmed |-> MaxNameLen + 1]
FullName == [len |-> MaxNameLen, trimmed |-> MaxNameLen]

NoLoc == [bid |-> 0, rid |-> 0, ci |-> 0, co |-> 0, st |-> NoStatus, price |-> None,
          user |-> None, name |-> EmptyName, ref |-> 0, tgt |-> NoStatus,
          early |-> FALSE, issued |-> NoStatus]

NoRes == [op |-> "none", kind |-> "none", id |-> 0, counts |-> <<0, 0>>, args |-> <<>>]

\* the response of a finished request: the operation, "ok" or the AppError kind,
\* and the id of the row the request named or created
Response(op, kind, id) ==
    [op |-> op, kind |-> kind, id |-> id, counts |-> <<0, 0>>, args |-> <<>>]

Finish(p, r) ==
    /\ pc' = [pc EXCEPT ![p] = "idle"]
    /\ loc' = [loc EXCEPT ![p] = NoLoc]
    /\ res' = r

Goto(p, label, l) ==
    /\ pc' = [pc EXCEPT ![p] = label]
    /\ loc' = [loc EXCEPT ![p] = l]
    /\ res' = NoRes

Init ==
    /\ rooms = [r \in Rooms |-> "Available"]
    /\ bookings = <<>>
    /\ today = 0
    /\ pc = [p \in Procs |-> "idle"]
    /\ loc = [p \in Procs |-> NoLoc]
    /\ res = NoRes

\* ------------------------------------------------------------------ booking_service.rs
\* validate_dates that lets the check-out be on the check-in date
validate_dates_same_day(check_in_date, check_out_date, tdy) ==
    IF check_in_date < tdy THEN "ValidationError"
    ELSE IF check_out_date < check_in_date THEN "ValidationError"
    ELSE "ok"

\* validate_dates that also refuses a check-in today
validate_dates_after_today(check_in_date, check_out_date, tdy) ==
    IF check_in_date <= tdy THEN "ValidationError"
    ELSE IF check_out_date <= check_in_date THEN "ValidationError"
    ELSE "ok"

\* validate_dates: the error it returns, or "ok"
validate_dates(check_in_date, check_out_date, tdy) ==
    IF check_in_date < tdy THEN "ValidationError"
    ELSE IF check_out_date <= check_in_date THEN "ValidationError"
    ELSE "ok"

\* the rows of check_availability's query with the two date tests made inclusive
conflicting_closed(bks, room_id, check_in_date, check_out_date, exclude_booking_id) ==
    {i \in 1..Len(bks) :
        /\ bks[i].room_id = room_id
        /\ bks[i].status # "Cancelled"
        /\ bks[i].status # "CheckedOut"
        /\ bks[i].check_in_date <= check_out_date
        /\ bks[i].check_out_date >= check_in_date
        /\ (exclude_booking_id # None => i # exclude_booking_id[1])}

\* the rows check_availability's query loads
conflicting(bks, room_id, check_in_date, check_out_date, exclude_booking_id) ==
    {i \in 1..Len(bks) :
        /\ bks[i].room_id = room_id
        /\ bks[i].status # "Cancelled"
        /\ bks[i].status # "CheckedOut"
        /\ bks[i].check_in_date < check_out_date
        /\ bks[i].check_out_date > check_in_date
        /\ (exclude_booking_id # None => i # exclude_booking_id[1])}

\* check_availability that asks for an Available room whatever the date
check_availability_ready_only(bks, rms, room_id, check_in_date, check_out_date, exclude_booking_id, tdy) ==
    IF rms[room_id] # "Available" THEN FALSE
    ELSE conflicting(bks, room_id, check_in_date, check_out_date, exclude_booking_id) = {}

\* check_availability: the conflicting rows, then the room's status
check_availability(bks, rms, room_id, check_in_date, check_out_date, exclude_booking_id, tdy) ==
    IF rms[room_id] = "Maintenance" THEN FALSE
    ELSE IF check_in_date = tdy /\ rms[room_id] = "Occupied" THEN FALSE
    ELSE conflicting(bks, room_id, check_in_date, check_out_date, exclude_booking_id) = {}

\* (check_out_date - check_in_date).num_days().max(1)
Nights(check_in_date, check_out_date) ==
    IF check_out_date - check_in_date > 1 THEN check_out_date - check_in_date ELSE 1

\* the default price as the room's nightly price whatever the number of nights
booking_price_one_night(price, room_id, check_in_date, check_out_date) ==
    IF price # None THEN price[1] ELSE RoomPriceOf(room_id)

\* price.unwrap_or_else(|| room.price * nights.max(1))
booking_price(price, room_id, check_in_date, check_out_date) ==
    IF price # None THEN price[1]
    ELSE RoomPriceOf(room_id) * Nights(check_in_date, check_out_date)

\* the tasks now between the start of a create and its insert
Creating == {p \in Procs : pc[p] \in {"cb_avail", "cb_ref", "cb_insert"}}

\* the start of a create without the maintenance test that follows the room lookup
CreateBeginNoMaintenanceTest(p, op, user, name, room_id, check_in_date, check_out_date, price) ==
    /\ pc[p] = "idle"
    /\ Len(bookings) + Cardinality(Creating) < MaxBookings
    /\ IF validate_dates(check_in_date, check_out_date, today) # "ok"
       THEN Finish(p, Response(op, "ValidationError", 0))
       ELSE Goto(p, "cb_avail", [NoLoc EXCEPT !.rid = room_id, !.ci = check_in_date,
                                  !.co = check_out_date, !.price = price, !.user = user,
                                  !.name = name, !.tgt = op])
    /\ UNCHANGED <<rooms, bookings, today>>

\* the start of a create with the maintenance test moved above validate_dates
CreateBeginRoomFirst(p, op, user, name, room_id, check_in_date, check_out_date, price) ==
    /\ pc[p] = "idle"
    /\ Len(bookings) + Cardinality(Creating) < MaxBookings
    /\ IF rooms[room_id] = "Maintenance"
       THEN Finish(p, Response(op, "RoomUnavailable", 0))
       ELSE IF validate_dates(check_in_date, check_out_date, today) # "ok"
       THEN Finish(p, Response(op, "ValidationError", 0))
       ELSE Goto(p, "cb_avail", [NoLoc EXCEPT !.rid = room_id, !.ci = check_in_date,
                                  !.co = check_out_date, !.price = price, !.user = user,
                                  !.name = name, !.tgt = op])
    /\ UNCHANGED <<rooms, bookings, today>>

\* create_booking (user = None) and create_guest_booking, up to check_availability:
\* validate_dates, the room lookup and the maintenance test
CreateBegin(p, op, user, name, room_id, check_in_date, check_out_date, price) ==
    /\ pc[p] = "idle"
    /\ Len(bookings) + Cardinality(Creating) < MaxBookings
    /\ IF validate_dates(check_in_date, check_out_date, today) # "ok"
       THEN Finish(p, Response(op, "ValidationError", 0))
       ELSE IF rooms[room_id] = "Maintenance"
       THEN Finish(p, Response(op, "RoomUnavailable", 0))
       ELSE Goto(p, "cb_avail", [NoLoc EXCEPT !.rid = room_id, !.ci = check_in_date,
                                  !.co = check_out_date, !.price = price, !.user = user,
                                  !.name = name, !.tgt = op])
    /\ UNCHANGED <<rooms, bookings, today>>

create_booking(p, name, room_id, check_in_date, check_out_date, price) ==
    CreateBegin(p, "create_booking", None, name, room_id, check_in_date, check_out_date, price)

create_guest_booking(p, user, name, room_id, check_in_date, check_out_date, price) ==
    CreateBegin(p, "create_guest_booking", Some(user), name, room_id, check_in_date, check_out_date, price)

\* the call of check_availability in both create handlers
CreateCheckAvailability(p) ==
    /\ pc[p] = "cb_avail"
    /\ IF ~check_availability(bookings, rooms, loc[p].rid, loc[p].ci, loc[p].co, None, today)
       THEN Finish(p, Response(loc[p].tgt, "RoomUnavailable", 0))
       ELSE Goto(p, "cb_ref", loc[p])
    /\ UNCHANGED <<rooms, bookings, today>>

\* for _ in 0..10
MaxRefAttempts == 10

\* the guest-name tests that follow generate_reference: create_booking tests
\* emptiness and length, create_guest_booking emptiness only
NameError(op, name) ==
    IF name.trimmed = 0 THEN TRUE
    ELSE IF op = "create_booking" /\ name.len > MaxNameLen THEN TRUE
    ELSE FALSE

\* generate_reference's loop from iteration i on, over the suffixes the rng draws:
\* the first candidate no stored booking uses, or 0 after the last collision
RECURSIVE first_unused(_, _, _)
first_unused(bks, draws, i) ==
    IF i > MaxRefAttempts THEN 0
    ELSE IF \E k \in 1..Len(bks) : bks[k].reference = draws[i]
    THEN first_unused(bks, draws, i + 1)
    ELSE draws[i]

\* generate_reference that returns its last candidate when all have collided
generate_reference_keep_last(p, draws) ==
    /\ pc[p] = "cb_ref"
    /\ IF NameError(loc[p].tgt, loc[p].name)
       THEN Finish(p, Response(loc[p].tgt, "ValidationError", 0))
       ELSE Goto(p, "cb_insert",
                 [loc[p] EXCEPT !.ref = IF first_unused(bookings, draws, 1) = 0
                                        THEN draws[MaxRefAttempts]
                                        ELSE first_unused(bookings, draws, 1)])
    /\ UNCHANGED <<rooms, bookings, today>>

\* generate_reference and the guest-name tests after it.  The lookups only read,
\* references are never changed or deleted, so the loop is one step at its last
\* lookup
generate_reference(p, draws) ==
    /\ pc[p] = "cb_ref"
    /\ IF first_unused(bookings, draws, 1) = 0
       THEN Finish(p, Response(loc[p].tgt, "InternalError", 0))
       ELSE IF NameError(loc[p].tgt, loc[p].name)
       THEN Finish(p, Response(loc[p].tgt, "ValidationError", 0))
       ELSE Goto(p, "cb_insert", [loc[p] EXCEPT !.ref = first_unused(bookings, draws, 1)])
    /\ UNCHANGED <<rooms, bookings, today>>

\* NewBooking and diesel::insert_into(bookings::table): status defaults to Upcoming
NewBooking(l) ==
    [reference |-> l.ref,
     guest_name |-> [len |-> l.name.trimmed, trimmed |-> l.name.trimmed],
     room_id |-> l.rid,
     check_in_date |-> l.ci,
     check_out_date |-> l.co,
     status |-> "Upcoming",
     created_by_user_id |-> l.user,
     creation_source |-> IF l.user = None THEN "staff" ELSE "guest",
     price |-> booking_price(l.price, l.rid, l.ci, l.co)]

\* #[max_length = 100] guest_name -> Varchar
GuestNameColumnLen == 100

\* the insert of both create handlers: a guest_name longer than its column is
\* refused by the database, and the handler maps that to DatabaseError
CreateInsert(p) ==
    /\ pc[p] = "cb_insert"
    /\ IF NewBooking(loc[p]).guest_name.len > GuestNameColumnLen
       THEN /\ UNCHANGED bookings
            /\ Finish(p, Response(loc[p].tgt, "DatabaseError", 0))
       ELSE /\ bookings' = Append(bookings, NewBooking(loc[p]))
            /\ Finish(p, Response(loc[p].tgt, "ok", Len(bookings) + 1))
    /\ UNCHANGED <<rooms, today>>

\* the error a conn.transaction closure returns, as the handler's caller gets it:
\* .map_err(|e| AppError::from(e))
TxError(kind) == AppErrorFromDiesel(app_error_to_diesel(kind))

\* the early-check-in query run on the scheduled window instead of the widened one
early_conflicting_scheduled(bks, booking_id, room_id, actual_check_in_date, check_out_date) ==
    {i \in 1..Len(bks) :
        /\ bks[i].room_id = room_id
        /\ i # booking_id
        /\ bks[i].status # "Cancelled"
        /\ bks[i].status # "CheckedOut"
        /\ bks[i].check_in_date < check_out_date
        /\ bks[i].check_out_date > bks[booking_id].check_in_date}

\* the rows check_in's early-check-in query loads
early_conflicting(bks, booking_id, room_id, actual_check_in_date, check_out_date) ==
    {i \in 1..Len(bks) :
        /\ bks[i].room_id = room_id
        /\ i # booking_id
        /\ bks[i].status # "Cancelled"
        /\ bks[i].status # "CheckedOut"
        /\ bks[i].check_in_date < check_out_date
        /\ bks[i].check_out_date > actual_check_in_date}

\* the rows check_in's occupancy query loads
active_booking(bks, booking_id, room_id, tdy) ==
    {i \in 1..Len(bks) :
        /\ bks[i].room_id = room_id
        /\ i # booking_id
        /\ bks[i].status = "CheckedIn"
        /\ bks[i].check_out_date > tdy}

\* check_in called: the task takes a pooled connection (self.pool.get()) and has
\* read nothing yet.  issued is the status the booking has at this moment.
CheckInBegin(p, booking_id, confirm_early) ==
    /\ pc[p] = "idle"
    /\ Goto(p, "ci_begin",
            [NoLoc EXCEPT !.bid = booking_id, !.early = confirm_early,
                          !.issued = IF booking_id > Len(bookings) THEN NoStatus
                                     ELSE bookings[booking_id].status])
    /\ UNCHANGED <<rooms, bookings, today>>

\* actual_check_in_date that keeps the scheduled date when the check-in is early
actual_check_in_date_scheduled(booking, tdy, confirm_early) == booking.check_in_date

\* actual_check_in_date
actual_check_in_date(booking, tdy, confirm_early) ==
    IF booking.check_in_date > tdy /\ confirm_early THEN tdy ELSE booking.check_in_date

\* the error check_in's reads end in, or "ok": can_transition_to(CheckedIn), the
\* confirm_early test, the early check-in conflicts, the maintenance test and the
\* occupancy test
check_in_checks(bks, rms, booking_id, tdy, confirm_early) ==
    LET booking == bks[booking_id]
        actual == actual_check_in_date(booking, tdy, confirm_early)
    IN IF ~BookingCanTransitionTo(booking.status, "CheckedIn")
       THEN "InvalidStatusTransition"
       ELSE IF booking.check_in_date > tdy /\ ~confirm_early
       THEN "ValidationError"
       ELSE IF /\ actual < booking.check_in_date
               /\ early_conflicting(bks, booking_id, booking.room_id, actual,
                                    booking.check_out_date) # {}
       THEN "RoomUnavailable"
       ELSE IF rms[booking.room_id] = "Maintenance"
       THEN "RoomUnavailable"
       ELSE IF /\ actual = tdy
               /\ rms[booking.room_id] = "Occupied"
               /\ active_booking(bks, booking_id, booking.room_id, tdy) # {}
       THEN "RoomUnavailable"
       ELSE "ok"

\* check_in, the reads of its transaction: the booking lookup, then the tests of
\* check_in_checks on the rows committed at this moment
CheckInRead(p) ==
    /\ pc[p] = "ci_begin"
    /\ IF loc[p].bid > Len(bookings)
       THEN Finish(p, Response("check_in", AppErrorFromDiesel(DieselNotFound), loc[p].bid))
       ELSE LET booking == bookings[loc[p].bid]
                actual == actual_check_in_date(booking, today, loc[p].early)
                check == check_in_checks(bookings, rooms, loc[p].bid, today, loc[p].early)
            IN IF check # "ok"
               THEN Finish(p, Response("check_in", TxError(check), loc[p].bid))
               ELSE Goto(p, "ci_update",
                         [NoLoc EXCEPT !.bid = loc[p].bid, !.rid = booking.room_id,
                                       !.st = booking.status, !.ci = actual,
                                       !.early = actual < booking.check_in_date,
                                       !.issued = loc[p].issued])
    /\ UNCHANGED <<rooms, bookings, today>>

\* the rows an UPDATE of one booking without the status filter matches
rows_updated_unfiltered(bks, booking_id, status) == 1

\* rows a status-guarded UPDATE of one booking matches:
\* bookings::table.find(booking_id).filter(bookings::status.eq(booking.status))
rows_updated(bks, booking_id, status) ==
    IF bks[booking_id].status = status THEN 1 ELSE 0

\* check_in's booking update without the room update
CheckInWritesBookingOnly(l) ==
    /\ bookings' = [bookings EXCEPT ![l.bid] =
                      IF l.early
                      THEN [@ EXCEPT !.status = "CheckedIn", !.check_in_date = l.ci]
                      ELSE [@ EXCEPT !.status = "CheckedIn"]]
    /\ rooms' = rooms

\* the writes of check_in's transaction: the guarded booking update, then the room
CheckInWrites(l) ==
    /\ bookings' = [bookings EXCEPT ![l.bid] =
                      IF l.early
                      THEN [@ EXCEPT !.status = "CheckedIn", !.check_in_date = l.ci]
                      ELSE [@ EXCEPT !.status = "CheckedIn"]]
    /\ rooms' = [rooms EXCEPT ![l.rid] = "Occupied"]

\* check_in, from its guarded update to the commit (or the rollback on Conflict)
CheckInCommit(p) ==
    /\ pc[p] = "ci_update"
    /\ IF rows_updated(bookings, loc[p].bid, loc[p].st) = 0
       THEN /\ UNCHANGED <<rooms, bookings>>
            /\ Finish(p, Response("check_in", TxError("Conflict"), loc[p].bid))
       ELSE /\ CheckInWrites(loc[p])
            /\ Finish(p, Response("check_in", "ok", loc[p].bid))
    /\ UNCHANGED today

\* desired_checkout as today whatever the check-in date
desired_checkout_today(check_in_date, tdy) == tdy

\* max(today, check_in_date + 1 day)
desired_checkout(check_in_date, tdy) ==
    IF tdy > check_in_date + 1 THEN tdy ELSE check_in_date + 1

\* check_out, from the start of its transaction to the computed date and price
CheckOutBegin(p, booking_id) ==
    /\ pc[p] = "idle"
    /\ IF booking_id > Len(bookings)
       THEN Finish(p, Response("check_out", AppErrorFromDiesel(DieselNotFound), booking_id))
       ELSE LET booking == bookings[booking_id]
                checkout == desired_checkout(booking.check_in_date, today)
                new_price == RoomPriceOf(booking.room_id) * Nights(booking.check_in_date, checkout)
            IN IF ~BookingCanTransitionTo(booking.status, "CheckedOut")
               THEN Finish(p, Response("check_out", TxError("InvalidStatusTransition"),
                                       booking_id))
               ELSE Goto(p, "co_update",
                         [NoLoc EXCEPT !.bid = booking_id, !.rid = booking.room_id,
                                       !.st = booking.status, !.co = checkout,
                                       !.price = Some(new_price)])
    /\ UNCHANGED <<rooms, bookings, today>>

\* check_out's writes without the price
CheckOutWritesKeepPrice(l) ==
    /\ bookings' = [bookings EXCEPT ![l.bid] =
                      [@ EXCEPT !.status = "CheckedOut", !.check_out_date = l.co]]
    /\ rooms' = [rooms EXCEPT ![l.rid] = "Dirty"]

\* the writes of check_out's transaction
CheckOutWrites(l) ==
    /\ bookings' = [bookings EXCEPT ![l.bid] =
                      [@ EXCEPT !.status = "CheckedOut", !.check_out_date = l.co,
                                !.price = l.price[1]]]
    /\ rooms' = [rooms EXCEPT ![l.rid] = "Dirty"]

\* check_out, from its guarded update to the commit; get_result on no row is
\* diesel's NotFound
CheckOutCommit(p) ==
    /\ pc[p] = "co_update"
    /\ IF rows_updated(bookings, loc[p].bid, loc[p].st) = 0
       THEN /\ UNCHANGED <<rooms, bookings>>
            /\ Finish(p, Response("check_out", AppErrorFromDiesel(DieselNotFound),
                                  loc[p].bid))
       ELSE /\ CheckOutWrites(loc[p])
            /\ Finish(p, Response("check_out", "ok", loc[p].bid))
    /\ UNCHANGED today

\* cancel without the can_transition_to(Cancelled) test
CancelBeginUnchecked(p, booking_id) ==
    /\ pc[p] = "idle"
    /\ IF booking_id > Len(bookings)
       THEN Finish(p, Response("cancel", "NotFound", booking_id))
       ELSE Goto(p, "cn_update", [NoLoc EXCEPT !.bid = booking_id,
                                               !.st = bookings[booking_id].status,
                                               !.tgt = "cancel"])
    /\ UNCHANGED <<rooms, bookings, today>>

\* cancel: the lookup and can_transition_to(Cancelled)
CancelBegin(p, booking_id) ==
    /\ pc[p] = "idle"
    /\ IF booking_id > Len(bookings)
       THEN Finish(p, Response("cancel", "NotFound", booking_id))
       ELSE IF ~BookingCanTransitionTo(bookings[booking_id].status, "Cancelled")
       THEN Finish(p, Response("cancel", "InvalidStatusTransition", booking_id))
       ELSE Goto(p, "cn_update", [NoLoc EXCEPT !.bid = booking_id,
                                               !.st = bookings[booking_id].status,
                                               !.tgt = "cancel"])
    /\ UNCHANGED <<rooms, bookings, today>>

\* the text of an error: its format string and the values format! puts into it
Message(template, values) == <<template, values>>

\* AppError::NotFound("Booking not found".to_string())
BookingNotFound == Message("Booking not found", <<>>)

\* AppError::NotFound(format!("Booking with ID '{}' not found", booking_id))
BookingWithIdNotFound(booking_id) == Message("Booking with ID '{}' not found", <<booking_id>>)

\* the response that carries AppError::NotFound(message)
NotFoundResponse(op, id, message) == [Response(op, "NotFound", id) EXCEPT !.args = <<message>>]

\* the message of the NotFound get_guest_booking returns, None when it returns the
\* booking: the lookup of get_booking_with_room, then the ownership test
get_guest_booking_not_found(bks, booking_id, user_id) ==
    IF booking_id > Len(bks) THEN Some(BookingWithIdNotFound(booking_id))
    ELSE IF bks[booking_id].created_by_user_id # Some(user_id) THEN Some(BookingNotFound)
    ELSE None

\* the message of the NotFound cancel_guest_booking returns, None when it goes on to
\* the status test: its own lookup, then the ownership test
cancel_guest_booking_not_found(bks, booking_id, user_id) ==
    IF booking_id > Len(bks) THEN Some(BookingNotFound)
    ELSE IF bks[booking_id].created_by_user_id # Some(user_id) THEN Some(BookingNotFound)
    ELSE None

\* cancel_guest_booking with the status test of cancel
CancelGuestBeginAsStaff(p, booking_id, user_id) ==
    /\ pc[p] = "idle"
    /\ IF booking_id > Len(bookings)
       THEN Finish(p, NotFoundResponse("cancel_guest_booking", booking_id, BookingNotFound))
       ELSE IF bookings[booking_id].created_by_user_id # Some(user_id)
       THEN Finish(p, NotFoundResponse("cancel_guest_booking", booking_id, BookingNotFound))
       ELSE IF ~BookingCanTransitionTo(bookings[booking_id].status, "Cancelled")
       THEN Finish(p, Response("cancel_guest_booking", "InvalidStatusTransition", booking_id))
       ELSE Goto(p, "cn_update", [NoLoc EXCEPT !.bid = booking_id,
                                               !.st = bookings[booking_id].status,
                                               !.tgt = "cancel_guest_booking"])
    /\ UNCHANGED <<rooms, bookings, today>>

\* cancel_guest_booking without the ownership test
CancelGuestBeginAnyOwner(p, booking_id, user_id) ==
    /\ pc[p] = "idle"
    /\ IF booking_id > Len(bookings)
       THEN Finish(p, NotFoundResponse("cancel_guest_booking", booking_id, BookingNotFound))
       ELSE IF bookings[booking_id].status # "Upcoming"
       THEN Finish(p, Response("cancel_guest_booking", "InvalidStatusTransition", booking_id))
       ELSE Goto(p, "cn_update", [NoLoc EXCEPT !.bid = booking_id,
                                               !.st = bookings[booking_id].status,
                                               !.tgt = "cancel_guest_booking"])
    /\ UNCHANGED <<rooms, bookings, today>>

\* cancel_guest_booking: the lookup, the ownership test and the Upcoming test
CancelGuestBegin(p, booking_id, user_id) ==
    /\ pc[p] = "idle"
    /\ IF cancel_guest_booking_not_found(bookings, booking_id, user_id) # None
       THEN Finish(p, NotFoundResponse("cancel_guest_booking", booking_id,
                                       cancel_guest_booking_not_found(bookings, booking_id,
                                                                      user_id)[1]))
       ELSE IF bookings[booking_id].status # "Upcoming"
       THEN Finish(p, Response("cancel_guest_booking", "InvalidStatusTransition", booking_id))
       ELSE Goto(p, "cn_update", [NoLoc EXCEPT !.bid = booking_id,
                                               !.st = bookings[booking_id].status,
                                               !.tgt = "cancel_guest_booking"])
    /\ UNCHANGED <<rooms, bookings, today>>

\* get_guest_booking: get_booking_with_room, then the ownership test; it writes
\* nothing
get_guest_booking(p, booking_id, user_id) ==
    /\ pc[p] = "idle"
    /\ IF get_guest_booking_not_found(bookings, booking_id, user_id) # None
       THEN Finish(p, NotFoundResponse("get_guest_booking", booking_id,
                                       get_guest_booking_not_found(bookings, booking_id,
                                                                   user_id)[1]))
       ELSE Finish(p, Response("get_guest_booking", "ok", booking_id))
    /\ UNCHANGED <<rooms, bookings, today>>

\* the rows list_bookings_by_user's query loads
bookings_by_user(bks, user_id, status_filter) ==
    {i \in 1..Len(bks) :
        /\ bks[i].created_by_user_id = Some(user_id)
        /\ (status_filter # None => bks[i].status = status_filter[1])}

\* list_bookings_by_user: the ids of the rows it returns, with the arguments of the
\* call (the order of rows with equal check-in dates is the database's choice and
\* is left out)
list_bookings_by_user(p, user_id, status_filter) ==
    /\ pc[p] = "idle"
    /\ Finish(p, [Response("list_bookings_by_user", "ok", 0)
                    EXCEPT !.args = <<user_id, status_filter,
                                      bookings_by_user(bookings, user_id, status_filter)>>])
    /\ UNCHANGED <<rooms, bookings, today>>

\* UpdateBooking { status: Some(Cancelled), ..Default::default() } on
\* bookings::table.find(booking_id): the row's status whatever it is by now
CancelWrite(bks, booking_id) ==
    [bks EXCEPT ![booking_id] = [@ EXCEPT !.status = "Cancelled"]]

\* the update of cancel and of cancel_guest_booking
CancelCommit(p) ==
    /\ pc[p] = "cn_update"
    /\ bookings' = CancelWrite(bookings, loc[p].bid)
    /\ Finish(p, Response(loc[p].tgt, "ok", loc[p].bid))
    /\ UNCHANGED <<rooms, today>>

\* the first only of the CheckedIn rows past their check_out_date
OverstayingFirstOnly(bks, tdy) ==
    {i \in 1..Len(bks) :
        /\ bks[i].status = "CheckedIn" /\ bks[i].check_out_date < tdy
        /\ \A j \in 1..(i - 1) : ~(bks[j].status = "CheckedIn" /\ bks[j].check_out_date < tdy)}

\* the CheckedIn rows whose check_out_date is today or earlier
OverstayingThroughToday(bks, tdy) ==
    {i \in 1..Len(bks) : bks[i].status = "CheckedIn" /\ bks[i].check_out_date <= tdy}

\* the rows handle_stale_bookings turns into Overstay
Overstaying(bks, tdy) ==
    {i \in 1..Len(bks) : bks[i].status = "CheckedIn" /\ bks[i].check_out_date < tdy}

\* handle_stale_bookings: one UPDATE statement; no_show_count is the constant 0
handle_stale_bookings(p) ==
    /\ pc[p] = "idle"
    /\ bookings' = [i \in 1..Len(bookings) |->
                      IF i \in Overstaying(bookings, today)
                      THEN [bookings[i] EXCEPT !.status = "Overstay"]
                      ELSE bookings[i]]
    /\ Finish(p, [Response("handle_stale_bookings", "ok", 0)
                    EXCEPT !.counts = <<0, Cardinality(Overstaying(bookings, today))>>])
    /\ UNCHANGED <<rooms, today>>

\* ------------------------------------------------------------------ room_service.rs
\* update_room without its tests on the requested status
update_room_check_skipped(current_status, new_status) == "ok"

\* update_room's tests on the requested status: the error, or "ok"
update_room_check(current_status, new_status) ==
    IF new_status = NoStatus THEN "ok"
    ELSE IF current_status = "Occupied" /\ new_status = "Available"
    THEN "InvalidStatusTransition"
    ELSE IF new_status # "Dirty" /\ ~RoomCanTransitionTo(current_status, new_status)
    THEN "InvalidStatusTransition"
    ELSE "ok"

\* update_room: the room lookup and the transition tests
UpdateRoomBegin(p, room_id, status) ==
    /\ pc[p] = "idle"
    /\ IF update_room_check(rooms[room_id], status) # "ok"
       THEN Finish(p, Response("update_room", update_room_check(rooms[room_id], status),
                               room_id))
       ELSE Goto(p, "ur_update", [NoLoc EXCEPT !.rid = room_id, !.st = rooms[room_id],
                                               !.tgt = status])
    /\ UNCHANGED <<rooms, bookings, today>>

\* update_room: diesel::update(rooms::table.find(room_id)).set(&update)
UpdateRoomCommit(p) ==
    /\ pc[p] = "ur_update"
    /\ rooms' = IF loc[p].tgt = NoStatus THEN rooms ELSE [rooms EXCEPT ![loc[p].rid] = loc[p].tgt]
    /\ Finish(p, Response("update_room", "ok", loc[p].rid))
    /\ UNCHANGED <<bookings, today>>

\* ------------------------------------------------------------------ api/rooms.rs
\* update_cleaner_room_status: the role test, the room lookup, the transition test
UpdateCleanerRoomStatusBegin(p, room_id, status, role) ==
    /\ pc[p] = "idle"
    /\ IF ~is_allowed_for_role(status, role)
       THEN Finish(p, Response("update_cleaner_room_status", "Forbidden", room_id))
       ELSE IF ~RoomCanTransitionTo(rooms[room_id], status)
       THEN Finish(p, Response("update_cleaner_room_status", "InvalidStatusTransition",
                               room_id))
       ELSE Goto(p, "cl_update", [NoLoc EXCEPT !.rid = room_id, !.st = rooms[room_id],
                                               !.tgt = status])
    /\ UNCHANGED <<rooms, bookings, today>>

\* update_cleaner_room_status with an update that is not filtered on the status read
UpdateCleanerRoomStatusCommitUnfiltered(p) ==
    /\ pc[p] = "cl_update"
    /\ rooms' = [rooms EXCEPT ![loc[p].rid] = loc[p].tgt]
    /\ Finish(p, Response("update_cleaner_room_status", "ok", loc[p].rid))
    /\ UNCHANGED <<bookings, today>>

\* update_cleaner_room_status: the update filtered on the status read, Conflict on
\* zero rows
UpdateCleanerRoomStatusCommit(p) ==
    /\ pc[p] = "cl_update"
    /\ IF rooms[loc[p].rid] # loc[p].st
       THEN /\ UNCHANGED rooms
            /\ Finish(p, Response("update_cleaner_room_status", "Conflict", loc[p].rid))
       ELSE /\ rooms' = [rooms EXCEPT ![loc[p].rid] = loc[p].tgt]
            /\ Finish(p, Response("update_cleaner_room_status", "ok", loc[p].rid))
    /\ UNCHANGED <<bookings, today>>

\* ------------------------------------------------------------------ time
\* midnight UTC: Utc::now().date_naive() advances by a day
Tick ==
    /\ today < MaxToday
    /\ today' = today + 1
    /\ res' = NoRes
    /\ UNCHANGED <<rooms, bookings, pc, loc>>

\* ------------------------------------------------------------------ direct calls
\* a bool as the text of its response
BoolText(b) == IF b THEN "true" ELSE "false"

\* the value a function returned to its caller, with the arguments of the call
Returned(op, args, value) ==
    /\ res' = [NoRes EXCEPT !.op = op, !.kind = BoolText(value), !.args = args]
    /\ UNCHANGED <<rooms, bookings, today, pc, loc>>

\* BookingStatus::can_transition_to called on (s, new_status)
CallBookingCanTransitionTo(s, new_status) ==
    Returned("BookingStatus::can_transition_to", <<s, new_status>>,
             BookingCanTransitionTo(s, new_status))

\* RoomStatus::can_transition_to called on (s, new_status)
CallRoomCanTransitionTo(s, new_status) ==
    Returned("RoomStatus::can_transition_to", <<s, new_status>>,
             RoomCanTransitionTo(s, new_status))

\* RoomStatus::is_allowed_for_role called on (status, role)
CallIsAllowedForRole(status, role) ==
    Returned("RoomStatus::is_allowed_for_role", <<status, role>>,
             is_allowed_for_role(status, role))

\* BookingService::check_availability called on the stored rows
CallCheckAvailability(room_id, check_in_date, check_out_date, exclude_booking_id) ==
    Returned("check_availability",
             <<room_id, check_in_date, check_out_date, exclude_booking_id>>,
             check_availability(bookings, rooms, room_id, check_in_date, check_out_date,
                                exclude_booking_id, today))

\* ------------------------------------------------------------------ specifications
\* the rng draws of a generate_reference call whose first candidate is 1 and whose
\* later candidates are 2
FirstThenSecond == [i \in 1..MaxRefAttempts |-> IF i < 2 THEN 1 ELSE 2]

\* the rng draws of a generate_reference call whose first candidate is any
\* reference and whose later candidates are another one
Draws ==
    {[i \in 1..MaxRefAttempts |-> IF i < 2 THEN d[1] ELSE d[2]] :
        d \in {x \in Refs \X Refs : x[1] # x[2]}}

\* the ids of the stored bookings
Stored == 1..Len(bookings)

\* Spec: NumProcs request tasks of the lifecycle engine on staff bookings at the
\* room's own rate: create_booking, check_in, check_out, cancel,
\* cancel_guest_booking and the reconciler, interleaved at every statement, the
\* rng drawing either reference first
Next ==
    \/ \E p \in Procs, r \in Rooms, ci \in Dates, co \in Dates :
          create_booking(p, ValidName, r, ci, co, None)
    \/ \E p \in Procs : CreateCheckAvailability(p)
    \/ \E p \in Procs, d \in Draws : generate_reference(p, d)
    \/ \E p \in Procs : CreateInsert(p)
    \/ \E p \in Procs, b \in Stored, e \in BOOLEAN : CheckInBegin(p, b, e)
    \/ \E p \in Procs : CheckInRead(p)
    \/ \E p \in Procs : CheckInCommit(p)
    \/ \E p \in Procs, b \in Stored : CheckOutBegin(p, b)
    \/ \E p \in Procs : CheckOutCommit(p)
    \/ \E p \in Procs, b \in Stored : CancelBegin(p, b)
    \/ \E p \in Procs, b \in Stored, u \in Users : CancelGuestBegin(p, b, u)
    \/ \E p \in Procs : CancelCommit(p)
    \/ \E p \in Procs : handle_stale_bookings(p)
    \/ Tick

Spec == Init /\ [][Next]_vars

\* SpecGuest: the same tasks on bookings guests create for themselves
NextGuest ==
    \/ \E p \in Procs, u \in Users, r \in Rooms, ci \in Dates, co \in Dates :
          create_guest_booking(p, u, ValidName, r, ci, co, None)
    \/ \E p \in Procs : CreateCheckAvailability(p)
    \/ \E p \in Procs : generate_reference(p, FirstThenSecond)
    \/ \E p \in Procs : CreateInsert(p)
    \/ \E p \in Procs, b \in Stored, e \in BOOLEAN : CheckInBegin(p, b, e)
    \/ \E p \in Procs : CheckInRead(p)
    \/ \E p \in Procs : CheckInCommit(p)
    \/ \E p \in Procs, b \in Stored : CheckOutBegin(p, b)
    \/ \E p \in Procs : CheckOutCommit(p)
    \/ \E p \in Procs, b \in Stored, u \in Users : CancelGuestBegin(p, b, u)
    \/ \E p \in Procs : CancelCommit(p)
    \/ Tick

SpecGuest == Init /\ [][NextGuest]_vars

\* SpecRooms: every writer of a room's status (check_in, check_out, update_room,
\* the cleaner endpoint) on a room with at most MaxRoomBookings bookings
MaxRoomBookings == 1

NextRooms ==
    \/ \E p \in Procs, r \in Rooms, ci \in Dates, co \in Dates :
          /\ Len(bookings) + Cardinality(Creating) < MaxRoomBookings
          /\ create_booking(p, ValidName, r, ci, co, None)
    \/ \E p \in Procs : CreateCheckAvailability(p)
    \/ \E p \in Procs : generate_reference(p, FirstThenSecond)
    \/ \E p \in Procs : CreateInsert(p)
    \/ \E p \in Procs, b \in Stored, e \in BOOLEAN : CheckInBegin(p, b, e)
    \/ \E p \in Procs : CheckInRead(p)
    \/ \E p \in Procs : CheckInCommit(p)
    \/ \E p \in Procs, b \in Stored : CheckOutBegin(p, b)
    \/ \E p \in Procs : CheckOutCommit(p)
    \/ \E p \in Procs, r \in Rooms, s \in RoomStatus : UpdateRoomBegin(p, r, s)
    \/ \E p \in Procs : UpdateRoomCommit(p)
    \/ \E p \in Procs, r \in Rooms, s \in RoomStatus :
          UpdateCleanerRoomStatusBegin(p, r, s, "Cleaner")
    \/ \E p \in Procs : UpdateCleanerRoomStatusCommit(p)
    \/ Tick

SpecRooms == Init /\ [][NextRooms]_vars

\* the tables of up to n stored bookings of room 1, of any stay and any status
StayDates == {d \in Dates \X Dates : d[1] < d[2]}

StoredBooking(i, dates, status) ==
    [reference |-> i,
     guest_name |-> ValidName,
     room_id |-> 1,
     check_in_date |-> dates[1],
     check_out_date |-> dates[2],
     status |-> status,
     created_by_user_id |-> Some(1),
     creation_source |-> "guest",
     price |-> booking_price(None, 1, dates[1], dates[2])]

Tables(n) ==
    {<<>>} \cup
    UNION {{[i \in 1..k |-> StoredBooking(i, f[i][1], f[i][2])] :
               f \in [1..k -> StayDates \X BookingStatus]} : k \in 1..n}

\* SpecFn: check_availability called on every stored table of up to MaxBookings
\* bookings, every room status and every date
InitFn ==
    /\ rooms \in [Rooms -> RoomStatus]
    /\ bookings \in Tables(MaxBookings)
    /\ today \in 0..MaxToday
    /\ pc = [p \in Procs |-> "idle"]
    /\ loc = [p \in Procs |-> NoLoc]
    /\ res = NoRes

NextFn ==
    \E r \in Rooms, d \in StayDates, x \in {None} \cup {Some(b) : b \in BookingIds} :
        CallCheckAvailability(r, d[1], d[2], x)

SpecFn == InitFn /\ [][NextFn]_vars

\* SpecStatus: the two can_transition_to functions called on every pair of
\* statuses, is_allowed_for_role called on every status and role, and cancel and cancel_guest_booking run on a table that is empty or
\* holds one booking of any status
InitStatus ==
    /\ rooms = [r \in Rooms |-> "Available"]
    /\ bookings \in {<<>>} \cup {<<StoredBooking(1, <<0, 1>>, s)>> : s \in BookingStatus}
    /\ today = 0
    /\ pc = [p \in Procs |-> "idle"]
    /\ loc = [p \in Procs |-> NoLoc]
    /\ res = NoRes

NextStatus ==
    \/ \E s \in BookingStatus, t \in BookingStatus : CallBookingCanTransitionTo(s, t)
    \/ \E s \in RoomStatus, t \in RoomStatus : CallRoomCanTransitionTo(s, t)
    \/ \E s \in RoomStatus, role \in UserRole : CallIsAllowedForRole(s, role)
    \/ \E p \in Procs, b \in Stored : CancelBegin(p, b)
    \/ \E p \in Procs, b \in Stored, u \in Users : CancelGuestBegin(p, b, u)
    \/ \E p \in Procs : CancelCommit(p)

SpecStatus == InitStatus /\ [][NextStatus]_vars

\* SpecCreate: one request at a time on a room of any status that holds no booking
\* or one booking of any stay and status: create_booking and create_guest_booking
\* with every kind of guest name, without a price and with one of either sign, the rng
\* drawing fresh references or the same one ten times, then check_in and check_out
ExplicitPrice == 1

Solo == {1}

Names == {ValidName, BlankName, EmptyName, LongName, FullName}

\* the price of a request: absent, or any decimal, of either sign
Prices == {None, Some(ExplicitPrice), Some(0 - ExplicitPrice)}

\* the rng draws of a generate_reference call that draws one reference ten times
SameTenTimes == {[i \in 1..MaxRefAttempts |-> r] : r \in Refs}

\* the rng draws of a generate_reference call that draws one reference nine times
\* and another one at its last attempt
NineThenAnother ==
    {[i \in 1..MaxRefAttempts |-> IF i < MaxRefAttempts THEN d[1] ELSE d[2]] :
        d \in {x \in Refs \X Refs : x[1] # x[2]}}

CreateDraws == Draws \cup SameTenTimes \cup NineThenAnother

InitCreate ==
    /\ rooms \in [Rooms -> RoomStatus]
    /\ bookings \in Tables(1)
    /\ today \in 0..MaxToday
    /\ pc = [p \in Procs |-> "idle"]
    /\ loc = [p \in Procs |-> NoLoc]
    /\ res = NoRes

NextCreate ==
    \/ \E p \in Solo, n \in Names, r \in Rooms, ci \in Dates, co \in Dates, x \in Prices :
          create_booking(p, n, r, ci, co, x)
    \/ \E p \in Solo, u \in Users, n \in Names, r \in Rooms, ci \in Dates, co \in Dates,
          x \in Prices :
          create_guest_booking(p, u, n, r, ci, co, x)
    \/ \E p \in Solo : CreateCheckAvailability(p)
    \/ \E p \in Solo, d \in CreateDraws : generate_reference(p, d)
    \/ \E p \in Solo : CreateInsert(p)
    \/ \E p \in Solo, b \in Stored, e \in BOOLEAN : CheckInBegin(p, b, e)
    \/ \E p \in Solo : CheckInRead(p)
    \/ \E p \in Solo : CheckInCommit(p)
    \/ \E p \in Solo, b \in Stored : CheckOutBegin(p, b)
    \/ \E p \in Solo : CheckOutCommit(p)

SpecCreate == InitCreate /\ [][NextCreate]_vars

\* SpecStay: one request at a time, check_in (confirmed early or not) and
\* check_out, on a room of any status that holds up to MaxBookings bookings of any
\* stay and status, on any day
\* what check_in and the reconciler leave behind: a booking that was checked in
\* has a check-in date that is not after today (check_in refuses a later one, or
\* moves it to today), and an Overstay booking a check-out date before today
StayedRowsStarted(bks, tdy) ==
    \A i \in 1..Len(bks) :
        /\ bks[i].status \in {"CheckedIn", "CheckedOut", "Overstay"}
           => bks[i].check_in_date <= tdy
        /\ bks[i].status = "Overstay" => bks[i].check_out_date < tdy

InitStay ==
    /\ rooms \in [Rooms -> RoomStatus]
    /\ bookings \in Tables(MaxBookings)
    /\ today \in 0..MaxToday
    /\ StayedRowsStarted(bookings, today)
    /\ pc = [p \in Procs |-> "idle"]
    /\ loc = [p \in Procs |-> NoLoc]
    /\ res = NoRes

NextStay ==
    \/ \E p \in Solo, b \in Stored, e \in BOOLEAN : CheckInBegin(p, b, e)
    \/ \E p \in Solo : CheckInRead(p)
    \/ \E p \in Solo : CheckInCommit(p)
    \/ \E p \in Solo, b \in Stored : CheckOutBegin(p, b)
    \/ \E p \in Solo : CheckOutCommit(p)

SpecStay == InitStay /\ [][NextStay]_vars

\* SpecOwner: the guest-scoped reads and cancel next to the staff cancel, called by
\* every guest and by a user who owns no booking, on every id, on a table of up to
\* MaxBookings bookings of any status that staff (no owner) or a guest created
Callers == 1..(NumUsers + 1)

Owners == {None} \cup {Some(u) : u \in Users}

OwnedBooking(i, status, owner) ==
    [StoredBooking(i, <<0, 1>>, status)
        EXCEPT !.created_by_user_id = owner,
               !.creation_source = IF owner = None THEN "staff" ELSE "guest"]

OwnedTables(n) ==
    {<<>>} \cup
    UNION {{[i \in 1..k |-> OwnedBooking(i, f[i][1], f[i][2])] :
               f \in [1..k -> BookingStatus \X Owners]} : k \in 1..n}

InitOwner ==
    /\ rooms = [r \in Rooms |-> "Available"]
    /\ bookings \in OwnedTables(MaxBookings)
    /\ today = 0
    /\ pc = [p \in Procs |-> "idle"]
    /\ loc = [p \in Procs |-> NoLoc]
    /\ res = NoRes

NextOwner ==
    \/ \E p \in Solo, b \in BookingIds, u \in Callers : get_guest_booking(p, b, u)
    \/ \E p \in Solo, u \in Callers, f \in {None} \cup {Some(st) : st \in BookingStatus} :
          list_bookings_by_user(p, u, f)
    \/ \E p \in Solo, b \in BookingIds, u \in Callers : CancelGuestBegin(p, b, u)
    \/ \E p \in Solo, b \in BookingIds : CancelBegin(p, b)
    \/ \E p \in Solo : CancelCommit(p)

SpecOwner == InitOwner /\ [][NextOwner]_vars

\* SpecRef: NumProcs create_booking and create_guest_booking requests of one day,
\* interleaved at every statement; the day does not change, so every candidate
\* reference carries the same date and differs from another by its suffix only
NextRef ==
    \/ \E p \in Procs, r \in Rooms, ci \in Dates, co \in Dates :
          create_booking(p, ValidName, r, ci, co, None)
    \/ \E p \in Procs, u \in Users, r \in Rooms, ci \in Dates, co \in Dates :
          create_guest_booking(p, u, ValidName, r, ci, co, None)
    \/ \E p \in Procs : CreateCheckAvailability(p)
    \/ \E p \in Procs, d \in Draws : generate_reference(p, d)
    \/ \E p \in Procs : CreateInsert(p)

SpecRef == Init /\ [][NextRef]_vars

\* ------------------------------------------------------------------ properties
\* the transitions the BookingStatus table lists besides a status to itself
BookingTransitionTable ==
    {<<"Upcoming", "CheckedIn">>, <<"Upcoming", "Cancelled">>, <<"Upcoming", "NoShow">>,
     <<"CheckedIn", "CheckedOut">>, <<"CheckedIn", "Overstay">>,
     <<"NoShow", "CheckedIn">>, <<"NoShow", "Cancelled">>,
     <<"Overstay", "CheckedOut">>}

\* the transitions the RoomStatus table lists besides a status to itself
RoomTransitionTable ==
    {<<"Available", "Occupied">>, <<"Available", "Maintenance">>, <<"Available", "Dirty">>,
     <<"Occupied", "Available">>, <<"Occupied", "Dirty">>,
     <<"Maintenance", "Available">>,
     <<"Dirty", "Cleaning">>, <<"Dirty", "Available">>,
     <<"Cleaning", "Available">>, <<"Cleaning", "Dirty">>}

\* the statuses that block availability
BlockingSet == {"Upcoming", "CheckedIn", "Overstay"}

\* half-open ranges [a1, a2) and [b1, b2) overlap
RangesOverlap(a1, a2, b1, b2) == a1 < b2 /\ b1 < a2

\* task p finishes its check_in at the guarded update in this step
CheckInFinishes(p) == pc[p] = "ci_update" /\ pc'[p] = "idle"

\* C1 as stated: of two check_in calls issued while the booking is Upcoming, the one
\* that finishes after the other has checked the booking in returns Conflict (there
\* are never two successes)
C1_LoserReturnsConflict ==
    [][\A p \in Procs :
          (/\ CheckInFinishes(p)
           /\ loc[p].issued = "Upcoming"
           /\ bookings[loc[p].bid].status = "CheckedIn")
          => res'.kind = "Conflict"]_vars

\* C1 amended: a check_in that reaches its guarded update succeeds exactly when the
\* booking still has the status the call read, and otherwise returns Conflict and
\* changes neither row; so of the calls that read the booking as Upcoming the first
\* to commit succeeds and leaves every other one a status that no longer matches
C1_GuardedUpdate ==
    [][\A p \in Procs :
          CheckInFinishes(p) =>
             /\ IF bookings[loc[p].bid].status = loc[p].st
                THEN res'.kind = "ok" /\ bookings'[loc[p].bid].status = "CheckedIn"
                ELSE res'.kind = "Conflict" /\ bookings' = bookings /\ rooms' = rooms
             /\ (loc[p].st = "Upcoming" /\ res'.kind = "ok") =>
                   \A q \in Procs \ {p} :
                      (/\ pc[q] = "ci_update"
                       /\ loc[q].bid = loc[p].bid
                       /\ loc[q].st = "Upcoming")
                      => bookings'[loc[q].bid].status # loc[q].st]_vars

\* a check_in has just returned Conflict on a booking a rival checked in
C1_Witness ==
    /\ res.op = "check_in"
    /\ res.kind = "Conflict"
    /\ bookings[res.id].status = "CheckedIn"

\* C2 as stated: no two bookings of one room that both have a blocking status have
\* overlapping half-open date ranges
C2_NoBlockingOverlap ==
    \A i \in 1..Len(bookings), j \in 1..Len(bookings) :
        (/\ i < j
         /\ bookings[i].room_id = bookings[j].room_id
         /\ bookings[i].status \in BlockingSet
         /\ bookings[j].status \in BlockingSet)
        => ~RangesOverlap(bookings[i].check_in_date, bookings[i].check_out_date,
                          bookings[j].check_in_date, bookings[j].check_out_date)

\* C3 as stated: every change of a booking's status is a pair the BookingStatus
\* table permits
C3_LegalStatusChanges ==
    [][\A b \in 1..Len(bookings) :
          bookings'[b].status # bookings[b].status
          => <<bookings[b].status, bookings'[b].status>> \in BookingTransitionTable]_vars

\* C4: a check_in or check_out that succeeds has written the booking and the room,
\* one that returns an error has changed neither, and a booking becomes CheckedIn
\* (CheckedOut) in the same step in which its room becomes Occupied (Dirty)
C4_Atomic ==
    [][/\ res'.op = "check_in" =>
             IF res'.kind = "ok"
             THEN /\ bookings'[res'.id].status = "CheckedIn"
                  /\ rooms'[bookings'[res'.id].room_id] = "Occupied"
             ELSE bookings' = bookings /\ rooms' = rooms
       /\ res'.op = "check_out" =>
             IF res'.kind = "ok"
             THEN /\ bookings'[res'.id].status = "CheckedOut"
                  /\ rooms'[bookings'[res'.id].room_id] = "Dirty"
             ELSE bookings' = bookings /\ rooms' = rooms
       /\ \A b \in 1..Len(bookings) :
             /\ (bookings[b].status # "CheckedIn" /\ bookings'[b].status = "CheckedIn")
                => rooms'[bookings[b].room_id] = "Occupied"
             /\ (bookings[b].status # "CheckedOut" /\ bookings'[b].status = "CheckedOut")
                => rooms'[bookings[b].room_id] = "Dirty"]_vars

\* a check_in has just succeeded on a room that was not Occupied before
C4_Witness ==
    /\ res.op = "check_in"
    /\ res.kind = "ok"
    /\ bookings[res.id].status = "CheckedIn"
    /\ rooms[bookings[res.id].room_id] = "Occupied"
    /\ \A i \in 1..Len(bookings) : i # res.id => bookings[i].status = "Upcoming"

AnsweredAtOnce == pc' = pc /\ res'.op # "none"

\* C6: from CheckedOut and from Cancelled can_transition_to is false for every
\* target, the same status included, and a cancel or cancel_guest_booking that
\* finds the booking CheckedOut or Cancelled is rejected and writes nothing
C6_TerminalRejectsAll ==
    /\ [](res.op = "BookingStatus::can_transition_to" =>
            (res.args[1] \in {"CheckedOut", "Cancelled"} => res.kind = "false"))
    /\ [][(/\ AnsweredAtOnce
           /\ res'.op \in {"cancel", "cancel_guest_booking"}
           /\ bookings[res'.id].status \in {"CheckedOut", "Cancelled"})
          => (res'.kind # "ok" /\ bookings' = bookings)]_vars

\* a cancel of a Cancelled booking has just been refused
C6_Witness ==
    /\ res.op = "cancel"
    /\ res.kind = "InvalidStatusTransition"
    /\ bookings[res.id].status = "Cancelled"
    /\ \A p \in Procs : pc[p] = "idle"

\* C7: RoomStatus can_transition_to(s1, s2) is true exactly when s1 = s2 or the pair
\* is in the RoomStatus table
C7_RoomTable ==
    res.op = "RoomStatus::can_transition_to" =>
        (res.kind = "true" <=>
            (res.args[1] = res.args[2] \/ res.args \in RoomTransitionTable))

\* can_transition_to has refused Occupied -> Maintenance
C7_Witness ==
    /\ res.op = "RoomStatus::can_transition_to"
    /\ res.args = <<"Occupied", "Maintenance">>
    /\ res.kind = "false"

\* C8 as stated: every change of a room's status is a pair the RoomStatus table
\* permits
C8_TableOnly ==
    [][\A r \in Rooms :
          rooms'[r] # rooms[r] => <<rooms[r], rooms'[r]>> \in RoomTransitionTable]_vars

\* C8 amended: a room's status changes only by check_in setting it Occupied, by
\* check_out setting it Dirty, by update_room setting it Dirty or to a status the
\* table permits from the status update_room read (never Occupied -> Available),
\* or by the cleaner endpoint making a change the table permits from the stored
\* status to a status a cleaner may set
C8_RoomWriters ==
    [][\A r \in Rooms :
          rooms'[r] # rooms[r] =>
             \E p \in Procs :
                /\ pc'[p] = "idle"
                /\ loc[p].rid = r
                /\ \/ pc[p] = "ci_update" /\ rooms'[r] = "Occupied"
                   \/ pc[p] = "co_update" /\ rooms'[r] = "Dirty"
                   \/ /\ pc[p] = "ur_update"
                      /\ rooms'[r] = loc[p].tgt
                      /\ \/ loc[p].tgt = "Dirty"
                         \/ loc[p].st = loc[p].tgt
                         \/ /\ <<loc[p].st, loc[p].tgt>> \in RoomTransitionTable
                            /\ <<loc[p].st, loc[p].tgt>> # <<"Occupied", "Available">>
                   \/ /\ pc[p] = "cl_update"
                      /\ <<rooms[r], rooms'[r]>> \in RoomTransitionTable
                      /\ rooms'[r] \notin {"Occupied", "Maintenance"}]_vars

\* update_room has just put a room under Maintenance
C8_Witness ==
    /\ res.op = "update_room"
    /\ res.kind = "ok"
    /\ rooms[res.id] = "Maintenance"

\* the stored bookings of the room that overlap [ci, co), the excluded one left out
OverlappingRows(room_id, ci, co, exclude) ==
    {i \in 1..Len(bookings) :
        /\ bookings[i].room_id = room_id
        /\ RangesOverlap(bookings[i].check_in_date, bookings[i].check_out_date, ci, co)
        /\ exclude # Some(i)}

RoomLetsDatesDecide(room_id, check_in_date) ==
    /\ rooms[room_id] # "Maintenance"
    /\ ~(rooms[room_id] = "Occupied" /\ check_in_date = today)

\* the stored booking i of the room counts in check_availability's query
CountedRow(i, room_id, exclude) ==
    /\ bookings[i].room_id = room_id
    /\ bookings[i].status \notin {"Cancelled", "CheckedOut"}
    /\ exclude # Some(i)

\* C11: where the room's status leaves the answer to the dates, check_availability
\* returns false exactly when a counted booking has check_in < requested check_out
\* and requested check_in < check_out, so a booking that only shares an endpoint
\* with the request does not conflict; and the test is symmetric: with two counted
\* bookings stored, asking for the first one's dates with the first excluded gives
\* the answer that asking for the second one's dates with the second excluded gives
C11_HalfOpenOverlap ==
    /\ [](res.op = "check_availability" /\ RoomLetsDatesDecide(res.args[1], res.args[2]) =>
            LET counted == {i \in 1..Len(bookings) : CountedRow(i, res.args[1], res.args[4])}
            IN /\ res.kind = "false" <=>
                     \E i \in counted :
                        /\ bookings[i].check_in_date < res.args[3]
                        /\ res.args[2] < bookings[i].check_out_date
               /\ (\A i \in counted :
                      \/ bookings[i].check_out_date = res.args[2]
                      \/ bookings[i].check_in_date = res.args[3])
                  => res.kind = "true")
    /\ [][(/\ res.op = "check_availability"
           /\ res'.op = "check_availability"
           /\ Len(bookings) = 2
           /\ \A i \in 1..2 : CountedRow(i, res.args[1], None)
           /\ rooms[res.args[1]] \notin {"Maintenance", "Occupied"}
           /\ res.args = <<bookings[1].room_id, bookings[1].check_in_date,
                           bookings[1].check_out_date, Some(1)>>
           /\ res'.args = <<bookings[2].room_id, bookings[2].check_in_date,
                            bookings[2].check_out_date, Some(2)>>)
          => res'.kind = res.kind]_vars

\* check_availability has returned true for a stay that starts on the day an
\* Upcoming booking of the room ends
C11_Witness ==
    /\ res.op = "check_availability"
    /\ res.kind = "true"
    /\ res.args[4] = None
    /\ \E i \in 1..Len(bookings) :
          /\ bookings[i].room_id = res.args[1]
          /\ bookings[i].status = "Upcoming"
          /\ bookings[i].check_out_date = res.args[2]

\* the two create operations
CreateOps == {"create_booking", "create_guest_booking"}

\* this step is the call create_booking or create_guest_booking of task p on
\* room_id for [check_in_date, check_out_date); the name and the price of the call
\* are the ones the task keeps, and any when the call is answered at once, because
\* the first step does not read them
CreateCalled(p, room_id, check_in_date, check_out_date) ==
    /\ pc[p] = "idle"
    /\ pc'[p] = "cb_avail" \/ res'.op \in CreateOps
    /\ LET n == IF pc'[p] = "cb_avail" THEN loc'[p].name ELSE ValidName
           x == IF pc'[p] = "cb_avail" THEN loc'[p].price ELSE None
       IN \/ create_booking(p, n, room_id, check_in_date, check_out_date, x)
          \/ \E u \in Users :
                create_guest_booking(p, u, n, room_id, check_in_date, check_out_date, x)

\* task p's create inserts its booking in this step
CreateInserts(p) == pc[p] = "cb_insert" /\ pc'[p] = "idle" /\ res'.kind = "ok"

C13_MaintenanceAnyDates ==
    [][\A p \in Procs, r \in Rooms, ci \in Dates, co \in Dates :
          (rooms[r] = "Maintenance" /\ CreateCalled(p, r, ci, co))
          => (res'.kind = "RoomUnavailable" /\ bookings' = bookings)]_vars

\* C13 amended: a create on a Maintenance room ends at once and persists nothing;
\* it returns RoomUnavailable for every date range validate_dates accepts and
\* ValidationError for a check-in before today or a check-out not after the
\* check-in
C13_MaintenanceAfterDates ==
    [][\A p \in Procs, r \in Rooms, ci \in Dates, co \in Dates :
          (rooms[r] = "Maintenance" /\ CreateCalled(p, r, ci, co))
          => /\ pc'[p] = "idle"
             /\ res'.kind = IF ci >= today /\ co > ci THEN "RoomUnavailable"
                             ELSE "ValidationError"
             /\ bookings' = bookings
             /\ rooms' = rooms]_vars

\* a create on a Maintenance room with no stored booking has just returned
\* RoomUnavailable
C13_Witness ==
    /\ res.op \in CreateOps
    /\ res.kind = "RoomUnavailable"
    /\ \A r \in Rooms : rooms[r] = "Maintenance"
    /\ bookings = <<>>

\* C14: a create whose check-in is before today or whose check-out is not after its
\* check-in returns ValidationError at once and persists nothing; for any other
\* dates, a check-in today and a one-night stay included, the date validation
\* raises no ValidationError
C14_DateValidation ==
    [][\A p \in Procs, r \in Rooms, ci \in Dates, co \in Dates :
          CreateCalled(p, r, ci, co) =>
             IF ci < today \/ co <= ci
             THEN /\ res'.op \in CreateOps
                  /\ res'.kind = "ValidationError"
                  /\ pc'[p] = "idle"
                  /\ bookings' = bookings
                  /\ rooms' = rooms
             ELSE res'.kind # "ValidationError"]_vars

\* a create has just persisted a one-night stay that starts today
C14_Witness ==
    /\ res.op \in CreateOps
    /\ res.kind = "ok"
    /\ bookings[res.id].check_in_date = today
    /\ bookings[res.id].check_out_date = today + 1

\* C15: a create_booking without an explicit price that succeeds appends exactly
\* one booking, Upcoming, for the requested room and dates, priced at the room's
\* nightly price times the number of nights (at least one), returns its id, and
\* changes no room and no other booking
C15_DefaultPrice ==
    [][\A p \in Procs :
          (CreateInserts(p) /\ loc[p].tgt = "create_booking" /\ loc[p].price = None) =>
             LET n == Len(bookings) + 1
                 days == loc[p].co - loc[p].ci
             IN /\ res' = Response("create_booking", "ok", n)
                /\ Len(bookings') = n
                /\ \A i \in 1..Len(bookings) : bookings'[i] = bookings[i]
                /\ rooms' = rooms
                /\ bookings'[n].status = "Upcoming"
                /\ bookings'[n].room_id = loc[p].rid
                /\ bookings'[n].check_in_date = loc[p].ci
                /\ bookings'[n].check_out_date = loc[p].co
                /\ bookings'[n].price = RoomPrice * (IF days > 1 THEN days ELSE 1)]_vars

\* create_booking has just persisted a two-night stay on an Available room at twice
\* the nightly price
C15_Witness ==
    /\ res.op = "create_booking"
    /\ res.kind = "ok"
    /\ rooms[bookings[res.id].room_id] = "Available"
    /\ bookings[res.id].check_out_date - bookings[res.id].check_in_date = 2
    /\ bookings[res.id].price = 2 * RoomPrice
    /\ bookings[res.id].status = "Upcoming"

\* the guest name is empty, blank, or longer than 100 characters
BadName(name) == name.trimmed = 0 \/ name.len > 100

\* C16 as stated: a create_booking or create_guest_booking whose guest name is
\* empty, blank or longer than 100 characters, and whose reference was generated,
\* ends with ValidationError and persists nothing
C16_SameNameRules ==
    [][\A p \in Procs :
          (/\ pc[p] \in {"cb_ref", "cb_insert"}
           /\ pc'[p] = "idle"
           /\ BadName(loc[p].name)
           /\ res'.kind # "InternalError")
          => (res'.kind = "ValidationError" /\ bookings' = bookings)]_vars

\* task p's check_in reads the stored booking and runs its tests in this step
CheckInReads(p) == pc[p] = "ci_begin" /\ pc'[p] # "ci_begin" /\ loc[p].bid \in Stored

\* C17 as stated: a check_in without confirm_early on a booking whose check-in
\* date is after today returns ValidationError and leaves the bookings and the
\* rooms unchanged
C17_FutureNeedsConfirmation ==
    [][\A p \in Procs :
          (/\ CheckInReads(p)
           /\ ~loc[p].early
           /\ bookings[loc[p].bid].check_in_date > today)
          => /\ res' = Response("check_in", "ValidationError", loc[p].bid)
             /\ bookings' = bookings
             /\ rooms' = rooms]_vars

\* C17 amended: a check_in without confirm_early on a booking whose check-in date
\* is after today fails and leaves the bookings and the rooms unchanged; it returns
\* ValidationError when the booking's status can transition to CheckedIn
\* (Upcoming, NoShow, CheckedIn), and the error of the status test otherwise
C17_FutureNeedsConfirmationIfEligible ==
    [][\A p \in Procs :
          (/\ CheckInReads(p)
           /\ ~loc[p].early
           /\ bookings[loc[p].bid].check_in_date > today)
          => /\ res'.op = "check_in"
             /\ res'.id = loc[p].bid
             /\ pc'[p] = "idle"
             /\ IF bookings[loc[p].bid].status \in {"Upcoming", "NoShow", "CheckedIn"}
                THEN res'.kind = "ValidationError"
                ELSE res'.kind \in ErrorKind \ {"ValidationError"}
             /\ bookings' = bookings
             /\ rooms' = rooms]_vars

\* a check_in of an Upcoming booking that starts after today has just returned
\* ValidationError
C17_Witness ==
    /\ res.op = "check_in"
    /\ res.kind = "ValidationError"
    /\ bookings[res.id].status = "Upcoming"
    /\ bookings[res.id].check_in_date > today

\* the other bookings of the room of booking b that are neither Cancelled nor
\* CheckedOut and overlap [today, b's check-out)
EarlyWindowRows(b) ==
    {i \in 1..Len(bookings) :
        /\ i # b
        /\ CountedRow(i, bookings[b].room_id, None)
        /\ RangesOverlap(bookings[i].check_in_date, bookings[i].check_out_date,
                         today, bookings[b].check_out_date)}

\* task p's check_in runs alone from its guarded update to its commit in this step
CheckInCommits(p) == pc[p] = "ci_update" /\ pc'[p] = "idle"

\* C18: a confirmed early check_in of an Upcoming booking that starts after today,
\* with no conflicting booking in [today, check-out) and the room Available, Dirty
\* or Cleaning, passes every test, and its commit returns ok, makes the booking
\* CheckedIn with check_in_date = today and nothing else changed, makes the room
\* Occupied, and leaves every other booking and room unchanged
C18_EarlyCheckIn ==
    [][\A p \in Procs :
          /\ (/\ CheckInReads(p)
               /\ loc[p].early
               /\ bookings[loc[p].bid].status = "Upcoming"
               /\ bookings[loc[p].bid].check_in_date > today
               /\ EarlyWindowRows(loc[p].bid) = {}
               /\ rooms[bookings[loc[p].bid].room_id] \in {"Available", "Dirty", "Cleaning"})
              => (pc'[p] = "ci_update" /\ bookings' = bookings /\ rooms' = rooms)
          /\ (/\ CheckInCommits(p)
               /\ bookings[loc[p].bid].status = "Upcoming"
               /\ bookings[loc[p].bid].check_in_date > today)
              => /\ res' = Response("check_in", "ok", loc[p].bid)
                 /\ bookings' = [bookings EXCEPT ![loc[p].bid] =
                                    [@ EXCEPT !.status = "CheckedIn",
                                              !.check_in_date = today]]
                 /\ rooms' = [rooms EXCEPT ![bookings[loc[p].bid].room_id] = "Occupied"]]_vars

\* a check_in has just succeeded on a booking that now starts today and still has
\* the price of its shorter scheduled stay
C18_Witness ==
    /\ res.op = "check_in"
    /\ res.kind = "ok"
    /\ bookings[res.id].status = "CheckedIn"
    /\ bookings[res.id].check_in_date = today
    /\ bookings[res.id].price
          < RoomPrice * (bookings[res.id].check_out_date - bookings[res.id].check_in_date)
    /\ rooms[bookings[res.id].room_id] = "Occupied"

C20_InvalidStatusTransitionReturned ==
    [][\A p \in Procs :
          /\ (/\ CheckInReads(p)
               /\ bookings[loc[p].bid].status \in {"CheckedOut", "Cancelled", "Overstay"})
              => /\ res' = Response("check_in", "InvalidStatusTransition", loc[p].bid)
                 /\ bookings' = bookings
                 /\ rooms' = rooms
          /\ (/\ pc[p] = "idle"
               /\ pc'[p] = "idle"
               /\ res'.op = "check_out"
               /\ res'.id \in Stored
               /\ bookings[res'.id].status \in {"Upcoming", "Cancelled", "NoShow", "CheckedOut"})
              => /\ res'.kind = "InvalidStatusTransition"
                 /\ bookings' = bookings
                 /\ rooms' = rooms]_vars

\* task p finishes its check_out at the guarded update in this step
CheckOutFinishes(p) == pc[p] = "co_update" /\ pc'[p] = "idle"

\* C21 as stated: a check_out whose guarded update finds the booking with another
\* status than the one it read returns Conflict and changes no booking and no room
C21_CheckOutLoserConflict ==
    [][\A p \in Procs :
          (CheckOutFinishes(p) /\ bookings[loc[p].bid].status # loc[p].st)
          => /\ res' = Response("check_out", "Conflict", loc[p].bid)
             /\ bookings' = bookings
             /\ rooms' = rooms]_vars

\* C22: a check_out succeeds only on a booking that is CheckedIn or Overstay, and
\* right after it has succeeded the booking is CheckedOut, its check_out_date is
\* the later of today and check_in_date + 1, hence at least check_in_date + 1, and
\* its room is Dirty
C22_CheckOutPostcondition ==
    /\ [](res.op = "check_out" /\ res.kind = "ok" =>
            LET b == bookings[res.id]
            IN /\ b.status = "CheckedOut"
               /\ b.check_out_date = (IF today > b.check_in_date + 1 THEN today
                                      ELSE b.check_in_date + 1)
               /\ b.check_out_date >= b.check_in_date + 1
               /\ rooms[b.room_id] = "Dirty")
    /\ [][\A p \in Procs :
             (CheckOutFinishes(p) /\ res'.kind = "ok")
             => bookings[loc[p].bid].status \in {"CheckedIn", "Overstay"}]_vars

\* a check_out two days or more after the check-in has just succeeded and ended
\* the stay today
C22_Witness ==
    /\ res.op = "check_out"
    /\ res.kind = "ok"
    /\ bookings[res.id].status = "CheckedOut"
    /\ today > bookings[res.id].check_in_date + 1
    /\ bookings[res.id].check_out_date = today
    /\ rooms[bookings[res.id].room_id] = "Dirty"

\* C23: a check_out that succeeds sets the booking's price to the room's nightly
\* price times the nights from check_in_date to the new check_out_date, at least
\* one, whatever price the booking had, an explicit one included
C23_PriceRecomputed ==
    [][\A p \in Procs :
          (CheckOutFinishes(p) /\ res'.kind = "ok") =>
             LET b == bookings'[loc[p].bid]
                 days == b.check_out_date - bookings[loc[p].bid].check_in_date
             IN /\ b.check_in_date = bookings[loc[p].bid].check_in_date
                /\ b.price = RoomPrice * (IF days > 1 THEN days ELSE 1)]_vars

\* a check_out has just succeeded on the booking a create call persisted, and the
\* booking carries the room's price for its nights, not the explicit price
C23_Witness ==
    /\ res.op = "check_out"
    /\ res.kind = "ok"
    /\ res.id = Len(bookings)
    /\ Len(bookings) = 2
    /\ bookings[res.id].status = "CheckedOut"
    /\ bookings[res.id].price
          = RoomPrice * (bookings[res.id].check_out_date - bookings[res.id].check_in_date)
    /\ bookings[res.id].price # ExplicitPrice

\* this step is the call cancel(b) of task p
CancelCalled(p, b) ==
    /\ pc[p] = "idle"
    /\ (pc'[p] = "cn_update" /\ loc'[p].tgt = "cancel") \/ res'.op = "cancel"
    /\ CancelBegin(p, b)

\* C24: a cancel that reads a status the table lets move to Cancelled (Upcoming,
\* NoShow) goes on to its update, which returns ok and sets the status Cancelled;
\* one that reads any other status returns InvalidStatusTransition at once; and no
\* step of a cancel changes a room, another booking, or any column of its booking
\* but the status
C24_CancelFrame ==
    [][\A p \in Procs :
          /\ \A b \in Stored :
                CancelCalled(p, b) =>
                   /\ IF <<bookings[b].status, "Cancelled">> \in BookingTransitionTable
                      THEN pc'[p] = "cn_update" /\ loc'[p].bid = b
                      ELSE res' = Response("cancel", "InvalidStatusTransition", b)
                   /\ bookings' = bookings
                   /\ rooms' = rooms
          /\ (pc[p] = "cn_update" /\ loc[p].tgt = "cancel" /\ pc'[p] # "cn_update") =>
                /\ loc[p].st \in {"Upcoming", "NoShow"}
                /\ res' = Response("cancel", "ok", loc[p].bid)
                /\ bookings' = [bookings EXCEPT ![loc[p].bid] =
                                   [@ EXCEPT !.status = "Cancelled"]]
                /\ rooms' = rooms]_vars

\* a cancel has just succeeded: the booking is Cancelled with its dates in order
\* and every room is as it was
C24_Witness ==
    /\ res.op = "cancel"
    /\ res.kind = "ok"
    /\ bookings[res.id].status = "Cancelled"
    /\ bookings[res.id].check_in_date < bookings[res.id].check_out_date
    /\ \A r \in Rooms : rooms[r] = "Available"
    /\ \A p \in Procs : pc[p] = "idle"

\* this step is the call get_guest_booking(b, u) or cancel_guest_booking(b, u) of
\* task p
GuestCalled(p, b, u) ==
    /\ pc[p] = "idle"
    /\ get_guest_booking(p, b, u) \/ CancelGuestBegin(p, b, u)

\* C25: get_guest_booking and cancel_guest_booking called on a stored booking by a
\* user who is not its created_by_user_id, a booking without owner included, return
\* NotFound at once and change nothing, whatever the booking's status; and every
\* row list_bookings_by_user returns has created_by_user_id equal to the caller
C25_OwnerOnly ==
    /\ [](res.op = "list_bookings_by_user" =>
            \A i \in res.args[3] :
               i \in Stored /\ bookings[i].created_by_user_id = Some(res.args[1]))
    /\ [][\A p \in Procs, b \in Stored, u \in Callers :
             (bookings[b].created_by_user_id # Some(u) /\ GuestCalled(p, b, u))
             => /\ res'.op \in {"get_guest_booking", "cancel_guest_booking"}
                /\ res'.kind = "NotFound"
                /\ res'.id = b
                /\ pc'[p] = "idle"
                /\ bookings' = bookings
                /\ rooms' = rooms]_vars

\* cancel_guest_booking has just answered NotFound for a stored Upcoming booking
\* that staff created
C25_Witness ==
    /\ res.op = "cancel_guest_booking"
    /\ res.kind = "NotFound"
    /\ res.id \in Stored
    /\ bookings[res.id].status = "Upcoming"
    /\ bookings[res.id].created_by_user_id = None

\* this step is the call cancel_guest_booking(b, u) of task p
CancelGuestCalled(p, b, u) ==
    /\ pc[p] = "idle"
    /\ (pc'[p] = "cn_update" /\ loc'[p].tgt = "cancel_guest_booking")
          \/ res'.op = "cancel_guest_booking"
    /\ CancelGuestBegin(p, b, u)

Reconciles == res'.op = "handle_stale_bookings"

\* the Upcoming bookings whose check_in_date is before today
StaleUpcoming(bks, tdy) ==
    {i \in 1..Len(bks) : bks[i].status = "Upcoming" /\ bks[i].check_in_date < tdy}

\* C27: a run of handle_stale_bookings leaves every booking that was Upcoming with
\* check_in_date < today in status NoShow and returns their number as the
\* no-show count
C27_NoShowMarked ==
    [][Reconciles =>
          /\ \A i \in StaleUpcoming(bookings, today) : bookings'[i].status = "NoShow"
          /\ res'.counts[1] = Cardinality(StaleUpcoming(bookings, today))
          /\ StaleUpcoming(bookings', today') = {}]_vars

\* C28: a run of handle_stale_bookings turns exactly the CheckedIn bookings with
\* check_out_date < today into Overstay, returns their number as the overstay
\* count, and changes no other booking, no other column, no room and not the day
C28_OverstayMarked ==
    [][Reconciles =>
          LET late == {i \in Stored : /\ bookings[i].status = "CheckedIn"
                                      /\ bookings[i].check_out_date < today}
          IN /\ Len(bookings') = Len(bookings)
             /\ \A i \in Stored :
                   bookings'[i] = IF i \in late
                                  THEN [bookings[i] EXCEPT !.status = "Overstay"]
                                  ELSE bookings[i]
             /\ res'.kind = "ok"
             /\ res'.counts[2] = Cardinality(late)
             /\ rooms' = rooms
             /\ today' = today]_vars

\* a run of handle_stale_bookings has just turned one booking of two into Overstay
\* and left the other, which is not Overstay, alone
C28_Witness ==
    /\ res.op = "handle_stale_bookings"
    /\ res.counts[2] = 1
    /\ Len(bookings) = 2
    /\ Cardinality({i \in Stored : bookings[i].status = "Overstay"}) = 1

\* C29: in every reachable state every booking has check_out_date > check_in_date
C29_DatesOrdered ==
    \A i \in Stored : bookings[i].check_out_date > bookings[i].check_in_date

\* a booking has just been checked out on the day of its check-in: its
\* check_out_date is the day after, not today
C29_Witness ==
    /\ res.op = "check_out"
    /\ res.kind = "ok"
    /\ res.id \in Stored
    /\ bookings[res.id].status = "CheckedOut"
    /\ bookings[res.id].check_in_date = today
    /\ bookings[res.id].check_out_date = today + 1

\* C30: in every reachable state every booking's price is non-negative
C30_PriceNonNegative ==
    \A i \in Stored : bookings[i].price >= 0

\* C31: in every reachable state no two bookings have the same reference
C31_ReferenceUnique ==
    \A i \in Stored, j \in Stored : i # j => bookings[i].reference # bookings[j].reference

\* the attempts of a generate_reference call whose candidate no stored booking uses
FreeAttempts(bks, draws) ==
    {i \in 1..MaxRefAttempts : \A k \in 1..Len(bks) : bks[k].reference # draws[i]}

\* C32: generate_reference makes at most MaxRefAttempts attempts and stores
\* nothing; when some candidate is used by no stored booking it returns the first
\* such candidate, which the create goes on with (unless the guest name is then
\* refused); when all candidates collide the create fails with InternalError and
\* ends without an insert
C32_ReferenceAttempts ==
    [][\A p \in Procs :
          pc[p] = "cb_ref" =>
             \A d \in CreateDraws :
                generate_reference(p, d) =>
                   /\ bookings' = bookings
                   /\ IF FreeAttempts(bookings, d) = {}
                      THEN /\ res' = Response(loc[p].tgt, "InternalError", 0)
                           /\ pc'[p] = "idle"
                      ELSE LET m == CHOOSE i \in FreeAttempts(bookings, d) :
                                       \A j \in FreeAttempts(bookings, d) : i <= j
                           IN IF pc'[p] = "cb_insert"
                              THEN loc'[p].ref = d[m]
                              ELSE res' = Response(loc[p].tgt, "ValidationError", 0)]_vars

\* a create has just failed with InternalError: the one stored booking is the one
\* whose reference every candidate hit
C32_Witness ==
    /\ res.op \in CreateOps
    /\ res.kind = "InternalError"
    /\ Len(bookings) = 1
    /\ pc = [p \in Procs |-> "idle"]

ActiveBookings(bks, room_id) ==
    {i \in 1..Len(bks) : bks[i].room_id = room_id /\ is_active(bks[i].status)}

\* C34: in every reachable state at most one booking of a room is active
\* (CheckedIn or Overstay)
C34_OneActivePerRoom ==
    \A r \in Rooms : Cardinality(ActiveBookings(bookings, r)) <= 1

\* C35: in every reachable state a room with a booking in an active status
\* (CheckedIn or Overstay) has status Occupied
C35_ActiveRoomOccupied ==
    \A i \in Stored : is_active(bookings[i].status) => rooms[bookings[i].room_id] = "Occupied"

\* task p's cleaner update runs its filtered UPDATE in this step
CleanerCommits(p) == pc[p] = "cl_update" /\ pc'[p] = "idle"

\* C36: a cleaner update is applied only while the room still has the status the
\* request read, and otherwise fails with Conflict and writes nothing; so of two
\* pending cleaner updates of one room that read the same status and each ask for
\* a different one, the first to run its update leaves the room in its own target,
\* which is not the status the other read, and the other, running its update on
\* that state, gets Conflict and leaves the winner's target in place
C36_CleanerOptimisticUpdate ==
    [][\A p \in Procs :
          CleanerCommits(p) =>
             /\ IF rooms[loc[p].rid] = loc[p].st
                THEN /\ rooms' = [rooms EXCEPT ![loc[p].rid] = loc[p].tgt]
                     /\ res' = Response("update_cleaner_room_status", "ok", loc[p].rid)
                ELSE /\ rooms' = rooms
                     /\ res' = Response("update_cleaner_room_status", "Conflict",
                                        loc[p].rid)
             /\ \A q \in Procs \ {p} :
                   (/\ pc[q] = "cl_update"
                    /\ loc[q].rid = loc[p].rid
                    /\ loc[q].st = loc[p].st
                    /\ loc[p].tgt # loc[p].st
                    /\ loc[q].tgt # loc[q].st
                    /\ res'.kind = "ok")
                   => /\ rooms'[loc[p].rid] = loc[p].tgt
                      /\ rooms'[loc[q].rid] # loc'[q].st
                      /\ pc'[q] = "cl_update"]_vars

\* the second of two cleaner updates has just got Conflict: no request is pending
\* and the room is Cleaning, the target of the first, not Available, which the
\* second asked for on a room it read as Dirty
C36_Witness ==
    /\ res = Response("update_cleaner_room_status", "Conflict", 1)
    /\ rooms[1] = "Cleaning"
    /\ \A p \in Procs : pc[p] = "idle"

\* C37: a room goes from Occupied to Available only in the step of a check_out of
\* a booking of that room, and an update_room that reads the room as Occupied and
\* asks for Available answers InvalidStatusTransition and writes nothing
C37_OccupiedToAvailableByCheckOutOnly ==
    [][/\ \A r \in Rooms :
             (rooms[r] = "Occupied" /\ rooms'[r] = "Available")
             => \E p \in Procs : CheckOutFinishes(p) /\ loc[p].rid = r
       /\ \A p \in Procs, r \in Rooms :
             (rooms[r] = "Occupied" /\ pc[p] = "idle" /\ UpdateRoomBegin(p, r, "Available"))
             => /\ res' = Response("update_room", "InvalidStatusTransition", r)
                /\ rooms' = rooms]_vars

\* C38: a run of handle_stale_bookings that directly follows another run, on the
\* same day and with no step of any request in between, changes no booking and no
\* room and returns zero for both counts: right after a run no booking is left
\* that a run would change
C38_ReconcilerIdempotent ==
    /\ [](res.op = "handle_stale_bookings" =>
            \A i \in Stored : ~(/\ bookings[i].status = "CheckedIn"
                                 /\ bookings[i].check_out_date < today))
    /\ [][(res.op = "handle_stale_bookings" /\ Reconciles)
          => /\ bookings' = bookings
             /\ rooms' = rooms
             /\ res'.kind = "ok"
             /\ res'.counts = <<0, 0>>]_vars

\* a run of handle_stale_bookings has just returned zero for both counts on a
\* table that holds a booking an earlier run turned into Overstay
C38_Witness ==
    /\ res.op = "handle_stale_bookings"
    /\ res.counts = <<0, 0>>
    /\ \E i \in Stored : bookings[i].status = "Overstay"

\* two error texts read the same: they have the same format string (the value put
\* into it is the id the caller sent)
SameMessage(m1, m2) == m1[1] = m2[1]

\* C39: get_guest_booking and cancel_guest_booking answer a caller who names a
\* stored booking of someone else with NotFound and the message they give for an
\* id that is not stored
C39_NoExistenceLeak ==
    [][\A p \in Procs, u \in Callers, b \in Stored :
          (bookings[b].created_by_user_id # Some(u) /\ pc[p] = "idle")
          => \A nb \in BookingIds \ Stored :
                /\ get_guest_booking(p, b, u)
                   => /\ res'.kind = "NotFound"
                      /\ SameMessage(res'.args[1],
                                     get_guest_booking_not_found(bookings, nb, u)[1])
                /\ CancelGuestBegin(p, b, u)
                   => /\ res'.kind = "NotFound"
                      /\ SameMessage(res'.args[1],
                                     cancel_guest_booking_not_found(bookings, nb, u)[1])]_vars

====
